---- MODULE Spec2Model ----
(***************************************************************************)
(* Model of src/src/event.rs: the in-memory Registry (relation, event      *)
(* pool, lookup cache) and the EventWatcher scheduler loop with its        *)
(* shutdown listener.                                                      *)
(***************************************************************************)
EXTENDS Integers, Sequences, FiniteSets, TLC

VARIABLES
    relation,       \* Registry.relation: registrant -> list of events
    event_pool,     \* Registry.event_pool: list of events
    cache,          \* Registry.cache: event -> list of registrants
    call,           \* the Registry method that ran last, with its arguments
    ret,            \* what that method returned
    test_pc,        \* position in test_registry (0: not following the test)
    now,            \* the clock, in seconds since EventWatcher::start
    heartbeat,      \* deadline of the next tick of the tokio interval
    watch,          \* the shared state of the watch channel behind tx and rx
    rx,             \* version seen by the receiver clone of this iteration
    loop_pc,        \* scheduler loop: "select", "task", "stopped", "panicked"
    listener_pc,    \* quit_on_ctrl_c: "waiting", "done" or "panicked"
    invocations,    \* task invocations begun so far
    in_flight,      \* task invocations begun and not yet completed
    task_start,     \* clock value at which the last invocation began
    overran,        \* some invocation has run for a whole period or longer
    sent_at,        \* clock value at which tx.send(0) ran (-1: not yet)
    last_result,    \* what the last completed invocation returned
    errors          \* errors logged by the loop (tracing::error!)

registryVars == <<relation, event_pool, cache, call, ret, test_pc>>

watcherVars ==
    <<now, heartbeat, watch, rx, loop_pc, listener_pc, invocations, in_flight,
      task_start, overran, sent_at, last_result, errors>>

vars == <<registryVars, watcherVars>>

----------------------------------------------------------------------------
(* Bounds of the Registry model *)

\* events are the integers 1..MaxEvent
MaxEvent == 2
\* longest subscription list a registrant may hold
MaxSubs == 2

Events == 1..MaxEvent

Registrants == {"foo", "bar"}

RECURSIVE SeqsUpTo(_, _)
SeqsUpTo(S, n) ==
    IF n = 0 THEN {<<>>}
    ELSE LET shorter == SeqsUpTo(S, n - 1)
         IN  shorter \cup {Append(s, x) : s \in {t \in shorter : Len(t) = n - 1}, x \in S}

EventLists == SeqsUpTo(Events, MaxSubs)

Range(s) == {s[i] : i \in DOMAIN s}

----------------------------------------------------------------------------
(* Vec::sort and Vec::dedup as the standard library computes them *)

RECURSIVE insert_sorted(_, _)
insert_sorted(s, x) ==
    IF s = <<>> THEN <<x>>
    ELSE IF x < Head(s) THEN <<x>> \o s
    ELSE <<Head(s)>> \o insert_sorted(Tail(s), x)

\* sort left out: the list stays in insertion order
sort_skipped(s) == s

RECURSIVE sort(_)
sort(s) ==
    IF s = <<>> THEN <<>>
    ELSE insert_sorted(sort(SubSeq(s, 1, Len(s) - 1)), s[Len(s)])

\* dedup left out: repeated events stay in the pool
dedup_skipped(s) == s

\* dedup removes consecutive repeated elements only
RECURSIVE dedup(_)
dedup(s) ==
    IF Len(s) <= 1 THEN s
    ELSE IF s[1] = s[2] THEN dedup(Tail(s))
    ELSE <<s[1]>> \o dedup(Tail(s))

\* relation.values().flatten() along one iteration order of the map
RECURSIVE flatten(_, _)
flatten(rel, iter) ==
    IF iter = <<>> THEN <<>>
    ELSE rel[Head(iter)] \o flatten(rel, Tail(iter))

\* the orders in which a HashMap with key set S may be iterated
IterOrders(S) ==
    {p \in [1..Cardinality(S) -> S] : \A i, j \in 1..Cardinality(S) : i /= j => p[i] /= p[j]}

----------------------------------------------------------------------------
(* Registry *)

\* Registry::new: the state after construction from the map `initial`
new(initial) ==
    /\ relation = initial
    /\ \E iter \in IterOrders(DOMAIN initial) :
          event_pool = dedup(sort(flatten(initial, iter)))
    /\ cache = <<>>
    /\ call = [op |-> "new", registrant |-> "", events |-> <<>>]
    /\ ret = <<>>

\* register without the eviction: every cache entry is kept
cache_remove_none(c, events) == c

\* HashMap::clear in place of the per-event remove
cache_clear(c, events) == <<>>

\* HashMap::remove for every event of the batch
cache_remove(c, events) ==
    [e \in DOMAIN c \ Range(events) |-> c[e]]

\* or_insert alone: the list of a registrant already present is not extended
entry_insert_only(rel, registrant, events) ==
    IF registrant \in DOMAIN rel
    THEN rel
    ELSE [r \in DOMAIN rel \cup {registrant} |->
             IF r = registrant THEN events ELSE rel[r]]

\* HashMap::insert in place of the entry API: the batch replaces the list
entry_replace(rel, registrant, events) ==
    [r \in DOMAIN rel \cup {registrant} |->
        IF r = registrant THEN events ELSE rel[r]]

\* relation.entry(registrant).and_modify(extend).or_insert(events)
entry_extend_or_insert(rel, registrant, events) ==
    IF registrant \in DOMAIN rel
    THEN [rel EXCEPT ![registrant] = @ \o events]
    ELSE [r \in DOMAIN rel \cup {registrant} |->
             IF r = registrant THEN events ELSE rel[r]]

\* register building the pool from the batch alone
register_pool_replaced(registrant, events) ==
    /\ cache' = cache_remove(cache, events)
    /\ event_pool' = dedup(sort(events))
    /\ relation' = entry_extend_or_insert(relation, registrant, events)
    /\ call' = [op |-> "register", registrant |-> registrant, events |-> events]
    /\ ret' = <<>>

\* Registry::register
register(registrant, events) ==
    /\ cache' = cache_remove(cache, events)
    /\ event_pool' = dedup(sort(event_pool \o events))
    /\ relation' = entry_extend_or_insert(relation, registrant, events)
    /\ call' = [op |-> "register", registrant |-> registrant, events |-> events]
    /\ ret' = <<>>

\* Registry::get_registrant_from_cache (the caller has checked the key)
get_registrant_from_cache(event) == cache[event]

\* a flat_map over the matching entries: one copy of the registrant for
\* every entry of its list equal to `event`
RECURSIVE filter_map_per_entry(_, _, _)
filter_map_per_entry(rel, iter, event) ==
    IF iter = <<>> THEN <<>>
    ELSE SelectSeq(rel[Head(iter)], LAMBDA e : e = event)
            \o filter_map_per_entry(rel, Tail(iter), event)

\* the filter_map of find_registrants_by_event over one iteration order:
\* a registrant is kept when its list holds an entry equal to `event`
RECURSIVE filter_map(_, _, _)
filter_map(rel, iter, event) ==
    IF iter = <<>> THEN <<>>
    ELSE IF \E i \in DOMAIN rel[Head(iter)] : rel[Head(iter)][i] = event
         THEN <<Head(iter)>> \o filter_map(rel, Tail(iter), event)
         ELSE filter_map(rel, Tail(iter), event)

\* what the scan (or the cache hit) of find_registrants_by_event may yield in
\* a Registry with cache c and relation rel: the cached list, or the
\* filter_map over any iteration order of the relation
find_returns(c, rel, event) ==
    IF event \in DOMAIN c
    THEN {c[event]}
    ELSE {filter_map(rel, iter, event) : iter \in IterOrders(DOMAIN rel)}

\* the early return left out: an empty result is cached like any other
nothing_matched_never(registrants) == FALSE

\* the guard of the early return: nothing matched
nothing_matched(registrants) == registrants = <<>>

\* HashMap::insert
cache_insert(c, event, registrants) ==
    [e \in DOMAIN c \cup {event} |-> IF e = event THEN registrants ELSE c[e]]

\* Registry::find_registrants_by_event
find_registrants_by_event(event) ==
    /\ call' = [op |-> "find", registrant |-> "", events |-> <<event>>]
    /\ UNCHANGED <<relation, event_pool>>
    /\ \E registrants \in find_returns(cache, relation, event) :
          /\ ret' = registrants
          /\ cache' = IF event \in DOMAIN cache \/ nothing_matched(registrants)
                      THEN cache
                      ELSE cache_insert(cache, event, registrants)

\* pool handing the list out with std::mem::take
pool_taken ==
    /\ ret' = event_pool
    /\ event_pool' = <<>>
    /\ call' = [op |-> "pool", registrant |-> "", events |-> <<>>]
    /\ UNCHANGED <<relation, cache>>

\* Registry::pool
pool ==
    /\ ret' = event_pool
    /\ call' = [op |-> "pool", registrant |-> "", events |-> <<>>]
    /\ UNCHANGED <<relation, event_pool, cache>>

----------------------------------------------------------------------------
(* EventWatcher *)

\* interval_secs, the period handed to EventWatcher::start
IntervalSecs == 2
\* the clock stops advancing here
MaxTime == 6

\* watch::channel(1_u8): the value, its version, and whether tx is dropped
watch_channel == [value |-> 1, version |-> 0, closed |-> FALSE]

\* a receiver that starts at the current version, as tx.subscribe() makes
rx_subscribe == watch.version

\* rx.clone() at the top of an iteration: a clone of the receiver made with
\* the channel, so with the version that one has seen (nothing awaits on the
\* original, its version never moves)
rx_clone == watch_channel.version

\* rx.changed() is ready: a version the clone has not seen, or tx dropped
changed_ready == watch.version /= rx \/ watch.closed

\* heartbeat.tick() is ready: the deadline has been reached
tick_ready == now >= heartbeat

\* start with the first tick one period away, as interval_at(now + period)
start_first_tick_delayed ==
    /\ now = 0
    /\ heartbeat = IntervalSecs
    /\ watch = watch_channel
    /\ rx = rx_clone
    /\ loop_pc = "select"
    /\ listener_pc = "waiting"
    /\ invocations = 0
    /\ in_flight = 0
    /\ task_start = 0
    /\ overran = FALSE
    /\ sent_at = -1
    /\ last_result = "none"
    /\ errors = 0

\* EventWatcher::start: the state once both tasks are spawned. The first
\* tick of tokio::time::interval is due at once.
start ==
    /\ now = 0
    /\ heartbeat = 0
    /\ watch = watch_channel
    /\ rx = rx_clone
    /\ loop_pc = "select"
    /\ listener_pc = "waiting"
    /\ invocations = 0
    /\ in_flight = 0
    /\ task_start = 0
    /\ overran = FALSE
    /\ sent_at = -1
    /\ last_result = "none"
    /\ errors = 0

\* select! takes the rx.changed() branch: break
LoopBreak ==
    /\ loop_pc = "select"
    /\ changed_ready
    /\ loop_pc' = "stopped"
    /\ UNCHANGED <<now, heartbeat, watch, rx, listener_pc, invocations, in_flight,
                   task_start, overran, sent_at, last_result, errors>>
    /\ UNCHANGED registryVars

\* the tick branch spawning the task instead of awaiting it
LoopTick_spawned ==
    /\ loop_pc = "select"
    /\ tick_ready
    /\ heartbeat' = heartbeat + IntervalSecs
    /\ invocations' = invocations + 1
    /\ in_flight' = in_flight + 1
    /\ task_start' = now
    /\ UNCHANGED <<now, watch, rx, loop_pc, listener_pc, overran, sent_at, last_result, errors>>
    /\ UNCHANGED registryVars

\* select! takes the heartbeat.tick() branch and calls task(watcher). The
\* macro polls its branches starting from a random one, so this branch may
\* be taken whenever the tick is ready, whatever the other branch is. The
\* interval (MissedTickBehavior::Burst) moves its deadline on by one period.
LoopTick ==
    /\ loop_pc = "select"
    /\ tick_ready
    /\ heartbeat' = heartbeat + IntervalSecs
    /\ loop_pc' = "task"
    /\ invocations' = invocations + 1
    /\ in_flight' = in_flight + 1
    /\ task_start' = now
    /\ UNCHANGED <<now, watch, rx, listener_pc, overran, sent_at, last_result, errors>>
    /\ UNCHANGED registryVars

\* an Err of the task leaving the loop, as `task(watcher).await?` would
TaskDone_error_breaks ==
    /\ in_flight > 0
    /\ \E result \in {"ok", "err"} :
          /\ last_result' = result
          /\ errors' = IF result = "err" THEN errors + 1 ELSE errors
          /\ loop_pc' = IF result = "err" THEN "stopped" ELSE "select"
    /\ in_flight' = in_flight - 1
    /\ rx' = rx_clone
    /\ UNCHANGED <<now, heartbeat, watch, listener_pc, invocations, task_start,
                   overran, sent_at>>
    /\ UNCHANGED registryVars

\* task(watcher).await completes with Ok or Err (the error is logged); the
\* loop goes round and clones self and rx again
TaskDone ==
    /\ in_flight > 0
    /\ \E result \in {"ok", "err"} :
          /\ last_result' = result
          /\ errors' = IF result = "err" THEN errors + 1 ELSE errors
    /\ in_flight' = in_flight - 1
    /\ loop_pc' = IF loop_pc = "task" THEN "select" ELSE loop_pc
    /\ rx' = rx_clone
    /\ UNCHANGED <<now, heartbeat, watch, listener_pc, invocations, task_start,
                   overran, sent_at>>
    /\ UNCHANGED registryVars

\* task(watcher) panics: the spawned loop task unwinds and ends, dropping
\* its receiver and the interval
TaskPanic ==
    /\ loop_pc = "task"
    /\ in_flight > 0
    /\ loop_pc' = "panicked"
    /\ in_flight' = in_flight - 1
    /\ last_result' = "panic"
    /\ UNCHANGED <<now, heartbeat, watch, rx, listener_pc, invocations, task_start,
                   overran, sent_at, errors>>
    /\ UNCHANGED registryVars

\* a receiver of the channel exists as long as the loop task is alive
receivers_alive == loop_pc \in {"select", "task"}

\* the listener aborting the loop task instead of signalling it
quit_aborting ==
    /\ listener_pc = "waiting"
    /\ watch' = [value |-> 0, version |-> watch.version + 1, closed |-> TRUE]
    /\ listener_pc' = "done"
    /\ sent_at' = now
    /\ loop_pc' = "stopped"
    /\ in_flight' = 0
    /\ UNCHANGED <<now, heartbeat, rx, invocations, task_start, overran,
                   last_result, errors>>
    /\ UNCHANGED registryVars

\* quit_on_ctrl_c: the interrupt arrives and tx.send(0) runs. With a
\* receiver alive the value is stored under a new version and the future
\* ends; with none send returns Err, the value is not stored and
\* unwrap_or_else panics. Either way tx is dropped.
quit_on_ctrl_c ==
    /\ listener_pc = "waiting"
    /\ IF receivers_alive
       THEN /\ watch' = [value |-> 0, version |-> watch.version + 1, closed |-> TRUE]
            /\ listener_pc' = "done"
            /\ sent_at' = now
       ELSE /\ watch' = [watch EXCEPT !.closed = TRUE]
            /\ listener_pc' = "panicked"
            /\ sent_at' = sent_at
    /\ UNCHANGED <<now, heartbeat, rx, loop_pc, invocations, in_flight, task_start,
                   overran, last_result, errors>>
    /\ UNCHANGED registryVars

\* One second passes. The runtime polls the loop as soon as a branch of the
\* select! is ready, so the clock does not move while one is; it moves
\* freely while a task invocation is running.
Advance ==
    /\ now < MaxTime
    /\ ~(loop_pc = "select" /\ (tick_ready \/ changed_ready))
    /\ now' = now + 1
    /\ overran' = (overran \/ (in_flight > 0 /\ now + 1 - task_start >= IntervalSecs))
    /\ UNCHANGED <<heartbeat, watch, rx, loop_pc, listener_pc, invocations,
                   in_flight, task_start, sent_at, last_result, errors>>
    /\ UNCHANGED registryVars

----------------------------------------------------------------------------
(* The Registry under arbitrary calls *)

InitialRelations ==
    UNION {[S -> EventLists] : S \in SUBSET Registrants}

SubsLen(r) == IF r \in DOMAIN relation THEN Len(relation[r]) ELSE 0

RegistryInit ==
    /\ \E initial \in InitialRelations : new(initial)
    /\ test_pc = 0
    /\ start

CallFind ==
    \E event \in Events :
        find_registrants_by_event(event) /\ UNCHANGED <<test_pc, watcherVars>>

CallRegister ==
    \E registrant \in Registrants, events \in EventLists :
        /\ SubsLen(registrant) + Len(events) <= MaxSubs
        /\ register(registrant, events)
        /\ UNCHANGED <<test_pc, watcherVars>>

CallPool == pool /\ UNCHANGED <<test_pc, watcherVars>>

RegistryNext == CallFind \/ CallRegister \/ CallPool

SpecRegistry == RegistryInit /\ [][RegistryNext]_vars

----------------------------------------------------------------------------
(* test_registry: the Registry of the test under its own and other calls *)

TestRelation ==
    [r \in {"foo", "bar"} |-> IF r = "foo" THEN <<1, 2, 3>> ELSE <<9, 2, 8, 1>>]

\* the calls of test_registry after Registry::new, in order
TestScript ==
    << [op |-> "pool", registrant |-> "", events |-> <<>>],
       [op |-> "find", registrant |-> "", events |-> <<7>>],
       [op |-> "find", registrant |-> "", events |-> <<8>>],
       [op |-> "find", registrant |-> "", events |-> <<2>>],
       [op |-> "register", registrant |-> "baz", events |-> <<2, 6, 7>>],
       [op |-> "pool", registrant |-> "", events |-> <<>>],
       [op |-> "find", registrant |-> "", events |-> <<2>>] >>

TestEvents == {1, 2, 3, 6, 7, 8, 9}

\* test_pc counts the calls of the test made so far, in the test's order
follow_test ==
    test_pc' = IF /\ test_pc >= 1
                  /\ test_pc <= Len(TestScript)
                  /\ call' = TestScript[test_pc]
               THEN test_pc + 1
               ELSE 0

TestInit ==
    /\ new(TestRelation)
    /\ test_pc = 1
    /\ start

TestFind ==
    \E event \in TestEvents :
        find_registrants_by_event(event) /\ follow_test /\ UNCHANGED watcherVars

TestRegister ==
    /\ "baz" \notin DOMAIN relation
    /\ register("baz", <<2, 6, 7>>)
    /\ follow_test
    /\ UNCHANGED watcherVars

TestPool == pool /\ follow_test /\ UNCHANGED watcherVars

TestNext == TestFind \/ TestRegister \/ TestPool

SpecTest == TestInit /\ [][TestNext]_vars

----------------------------------------------------------------------------
(* The EventWatcher beside an empty Registry *)

WatcherInit ==
    /\ new(<<>>)
    /\ test_pc = 0
    /\ start

WatcherNext == LoopBreak \/ LoopTick \/ TaskDone \/ quit_on_ctrl_c \/ Advance

SpecWatcher == WatcherInit /\ [][WatcherNext]_vars

\* every task invocation terminates; select! starts polling at a random
\* branch, so a cancellation branch that is ready again and again is taken
SpecWatcherFair ==
    /\ SpecWatcher
    /\ WF_vars(TaskDone)
    /\ SF_vars(LoopBreak)

\* the EventWatcher with a task that may also panic
WatcherPanicNext ==
    LoopBreak \/ LoopTick \/ TaskDone \/ TaskPanic \/ quit_on_ctrl_c \/ Advance

SpecWatcherPanic == WatcherInit /\ [][WatcherPanicNext]_vars


----------------------------------------------------------------------------
(* Properties of the Registry *)

\* the registrants whose subscription list in rel contains event
Subscribers(rel, event) == {r \in DOMAIN rel : event \in Range(rel[r])}

\* the results a full scan of rel for event can produce
FullScan(rel, event) ==
    {filter_map(rel, iter, event) : iter \in IterOrders(DOMAIN rel)}

\* C1: cache coherence. For every event the cache has no entry, or its entry
\* is a result a full scan of the relation would produce in this state:
\* exactly the registrants whose list contains the event, each once.
C1_CacheCoherent ==
    \A e \in DOMAIN cache :
        /\ cache[e] \in FullScan(relation, e)
        /\ Range(cache[e]) = Subscribers(relation, e)
        /\ Len(cache[e]) = Cardinality(Subscribers(relation, e))

\* C1 witness: an entry of two registrants has survived a register call
C1_Witness ==
    /\ call.op = "register"
    /\ \E e \in DOMAIN cache : Len(cache[e]) = 2

\* C2: the event pool is strictly ascending and holds exactly the events
\* that occur in some registrant's subscription list.
C2_PoolSortedDedup ==
    /\ \A i, j \in DOMAIN event_pool : i < j => event_pool[i] < event_pool[j]
    /\ Range(event_pool) = UNION {Range(relation[r]) : r \in DOMAIN relation}

\* C2 witness: after a register, a registrant holds the same event twice and
\* the pool has more than one event
C2_Witness ==
    /\ call.op = "register"
    /\ Len(event_pool) >= 2
    /\ \E r \in DOMAIN relation :
          \E i, j \in DOMAIN relation[r] : i /= j /\ relation[r][i] = relation[r][j]

\* C5: a register(R, events) step leaves the Registry such that, for every X
\* of events, whatever find_registrants_by_event(X) returns next includes R
\* and every registrant subscribed to X before the call, and the pool holds X.
C5_RegisterVisible ==
    [][call'.op = "register" =>
          \A X \in Range(call'.events) :
              /\ X \in Range(event_pool')
              /\ \A result \in find_returns(cache', relation', X) :
                    Subscribers(relation, X) \cup {call'.registrant} \subseteq Range(result)
      ]_vars

\* C5 witness: a register has just evicted the entry of an event that now has
\* two subscribers
C5_Witness ==
    /\ call.op = "register"
    /\ \E X \in Range(call.events) :
          /\ X \notin DOMAIN cache
          /\ Cardinality(Subscribers(relation, X)) = 2

\* C6: find_registrants_by_event(X) for an X without subscribers returns the
\* empty list and changes neither cache nor relation nor pool.
C6_FindUnsubscribed ==
    [][(call'.op = "find" /\ Subscribers(relation, call'.events[1]) = {}) =>
          (ret' = <<>> /\ UNCHANGED <<cache, relation, event_pool>>)
      ]_vars

\* C6 witness: a lookup of an unsubscribed event has returned, in a Registry
\* that has registrants and cache entries
C6_Witness ==
    /\ call.op = "find"
    /\ Subscribers(relation, call.events[1]) = {}
    /\ ret = <<>>
    /\ cache /= <<>>

\* C7: the reference scenario of test_registry. After new the pool is
\* [1,2,3,8,9]; find(7) is empty; find(8) is [bar]; find(2) holds foo and bar
\* and the cache has 2 entries; register(baz,[2,6,7]) evicts the entry of 2
\* and makes the pool [1,2,3,6,7,8,9]; find(2) then holds foo and bar (and
\* baz, recomputed) and the cache has 2 entries again.
C7_ReferenceScenario ==
    /\ test_pc = 1 => event_pool = <<1, 2, 3, 8, 9>>
    /\ test_pc = 2 => ret = <<1, 2, 3, 8, 9>>
    /\ test_pc = 3 => ret = <<>>
    /\ test_pc = 4 => ret = <<"bar">>
    /\ test_pc = 5 => ({"foo", "bar"} \subseteq Range(ret)
                          /\ Cardinality(DOMAIN cache) = 2)
    /\ test_pc = 6 => 2 \notin DOMAIN cache
    /\ test_pc = 7 => ret = <<1, 2, 3, 6, 7, 8, 9>>
    /\ test_pc = 8 => ({"foo", "bar"} \subseteq Range(ret)
                          /\ "baz" \in Range(cache[2])
                          /\ Cardinality(DOMAIN cache) = 2)

\* C7 witness: the test has made its last call
C7_Witness ==
    /\ test_pc = 8
    /\ call = TestScript[7]
    /\ Len(ret) = 3

\* C8 as stated: every key of the relation has a non-empty list
C8_NoEmptySubscription ==
    \A r \in DOMAIN relation : relation[r] /= <<>>

\* C8 amended: a key of the relation has an empty list only when every event
\* list given for it was empty: a non-empty list never becomes empty, and a
\* register with a non-empty event list leaves the registrant non-empty.
C8_EmptyOnlyIfGivenEmpty ==
    [][/\ \A r \in DOMAIN relation :
             relation[r] /= <<>> => (r \in DOMAIN relation' /\ relation'[r] /= <<>>)
       /\ (call'.op = "register" /\ call'.events /= <<>>) =>
             (call'.registrant \in DOMAIN relation'
                 /\ relation'[call'.registrant] /= <<>>)
      ]_vars

\* C8 witness: register with an empty list has run on a registrant that
\* keeps its events, beside a registrant whose list is empty
C8_Witness ==
    /\ call.op = "register"
    /\ call.events = <<>>
    /\ relation[call.registrant] /= <<>>
    /\ \E r \in DOMAIN relation : relation[r] = <<>>

\* C13: pool() returns the event pool and changes nothing, and neither
\* pool() nor find_registrants_by_event changes the pool or the relation,
\* so pool() calls with no register between them return the same list.
C13_PoolReadOnly ==
    [][/\ call'.op \in {"pool", "find"} => UNCHANGED <<event_pool, relation>>
       /\ call'.op = "pool" => (ret' = event_pool /\ UNCHANGED cache)
      ]_vars

\* C13 witness: pool() has returned a pool of two events in a Registry with
\* cache entries
C13_Witness ==
    /\ call.op = "pool"
    /\ ret = event_pool
    /\ Len(ret) = 2
    /\ cache /= <<>>

\* C15: register(R, events) appends. R is a key afterwards, its list is its
\* old list followed by events (so every earlier event is still there), and
\* the keys and lists of all other registrants are as before.
C15_RegisterAppends ==
    [][call'.op = "register" =>
          LET R == call'.registrant
              old == IF R \in DOMAIN relation THEN relation[R] ELSE <<>>
          IN  /\ DOMAIN relation' = DOMAIN relation \cup {R}
              /\ relation'[R] = old \o call'.events
              /\ Range(old) \subseteq Range(relation'[R])
              /\ \A r \in DOMAIN relation \ {R} : relation'[r] = relation[r]
      ]_vars

\* C15 witness: a register has extended a list that already had an event,
\* beside another registrant
C15_Witness ==
    /\ call.op = "register"
    /\ call.events /= <<>>
    /\ Len(relation[call.registrant]) > Len(call.events)
    /\ DOMAIN relation /= {call.registrant}

\* C16: register(R, events) evicts exactly the cache keys of the batch: no
\* entry of an event of events remains, every other entry is as before, and
\* no entry is added.
C16_EvictsExactlyBatch ==
    [][call'.op = "register" =>
          /\ DOMAIN cache' = DOMAIN cache \ Range(call'.events)
          /\ \A e \in DOMAIN cache' : cache'[e] = cache[e]
      ]_vars

\* C16 witness: after a register of a non-empty batch an entry of another
\* event is still cached
C16_Witness ==
    /\ call.op = "register"
    /\ call.events /= <<>>
    /\ \E e \in DOMAIN cache : e \notin Range(call.events)

\* C17: every cache key is an event of the pool and every entry is a
\* non-empty list; a lookup adds at most the entry of the queried event and
\* leaves every other entry as it was.
C17_CacheKeysInPool ==
    /\ [](\A e \in DOMAIN cache : e \in Range(event_pool) /\ cache[e] /= <<>>)
    /\ [][call'.op = "find" =>
             /\ DOMAIN cache \subseteq DOMAIN cache'
             /\ DOMAIN cache' \subseteq DOMAIN cache \cup {call'.events[1]}
             /\ \A e \in DOMAIN cache : cache'[e] = cache[e]
         ]_vars

\* C17 witness: a lookup has filled the second entry of the cache
C17_Witness ==
    /\ call.op = "find"
    /\ Cardinality(DOMAIN cache) = 2
    /\ call.events[1] \in DOMAIN cache
    /\ cache[call.events[1]] = ret

NoDuplicates(s) == \A i, j \in DOMAIN s : i /= j => s[i] /= s[j]

\* C18: what find_registrants_by_event returns, and every cache entry, holds
\* each registrant at most once, however often the event is in its list.
C18_RegistrantsOnce ==
    /\ \A e \in DOMAIN cache : NoDuplicates(cache[e])
    /\ call.op = "find" => NoDuplicates(ret)

\* C18 witness: a lookup has returned a registrant whose list holds the
\* event twice
C18_Witness ==
    /\ call.op = "find"
    /\ \E r \in Range(ret) :
          \E i, j \in DOMAIN relation[r] :
              i /= j /\ relation[r][i] = call.events[1] /\ relation[r][j] = call.events[1]

\* the events that occur in rel
EventsOf(rel) == UNION {Range(rel[r]) : r \in DOMAIN rel}

\* C19: subscriptions only grow. No step removes a registrant, an event of
\* the pool, or a registrant from the set a full scan finds for an event.
C19_OnlyGrows ==
    [][/\ DOMAIN relation \subseteq DOMAIN relation'
       /\ Range(event_pool) \subseteq Range(event_pool')
       /\ \A e \in EventsOf(relation) \cup Range(event_pool) :
             Subscribers(relation, e) \subseteq Subscribers(relation', e)
      ]_vars

\* C19 witness: a register has added a second event to a pool and a second
\* subscriber to an event
C19_Witness ==
    /\ call.op = "register"
    /\ Len(call.events) = 1
    /\ Len(event_pool) = 2
    /\ Cardinality(Subscribers(relation, call.events[1])) = 2

----------------------------------------------------------------------------
(* Properties of the EventWatcher *)

\* the cancellation value has been sent
Sent == listener_pc = "done"

\* whole periods that had elapsed when the cancellation value was sent
PeriodsBeforeSend == sent_at \div IntervalSecs

\* C3: once the cancellation value has been sent, no task invocation begins.
C3_NoTaskAfterCancel ==
    [][Sent => invocations' = invocations]_vars

\* C4 as stated: a stopped watcher whose invocations all completed within a
\* period has invoked the task once per period elapsed before the send.
C4_InvocationsEqualPeriods ==
    (loop_pc = "stopped" /\ ~overran) => invocations = PeriodsBeforeSend

\* C4 amended: the first tick is due at start, so the count is one more than
\* the periods elapsed before the send, or equal to them when the value is
\* sent at the very instant a tick falls due and wins the race against it;
\* and at no time have more invocations begun than deadlines were reached.
C4_InvocationsPeriodsPlusOne ==
    /\ invocations <= (now \div IntervalSecs) + 1
    /\ (loop_pc = "stopped" /\ ~overran) =>
          IF sent_at % IntervalSecs = 0
          THEN invocations \in {PeriodsBeforeSend, PeriodsBeforeSend + 1}
          ELSE invocations = PeriodsBeforeSend + 1

\* C4 witness: stopped after a send in the middle of the third period, every
\* invocation having completed within its period
C4_Witness ==
    /\ loop_pc = "stopped"
    /\ ~overran
    /\ PeriodsBeforeSend = 2
    /\ sent_at % IntervalSecs /= 0
    /\ invocations = 3

\* C9: at most one task invocation is in progress, and while one is the loop
\* neither begins another invocation nor takes the cancellation branch.
C9_TicksNeverOverlap ==
    /\ [](in_flight <= 1)
    /\ [][in_flight > 0 => (invocations' = invocations /\ loop_pc' /= "stopped")]_vars

\* C9 witness: a tick fell due and the cancellation value was sent while an
\* invocation was in progress
C9_Witness ==
    /\ in_flight = 1
    /\ loop_pc = "task"
    /\ tick_ready
    /\ Sent

\* C10: one sent value suffices. Once it is sent the loop eventually stops,
\* and until then every receiver clone the loop waits on has not seen the
\* version that holds it, so the value 0 is there to be observed.
C10_OneSignalSuffices ==
    /\ Sent ~> (loop_pc = "stopped")
    /\ [](Sent => (watch.value = 0 /\ (loop_pc = "select" => watch.version /= rx)))

\* C10 witness: the loop stopped on a value sent two invocations earlier
C10_Witness ==
    /\ loop_pc = "stopped"
    /\ Sent
    /\ invocations >= PeriodsBeforeSend + 3

\* C11: a task failure is not fatal. An invocation that returns Err leaves
\* the loop at its select!; the loop stops only once the cancellation value
\* has been sent, however many invocations have failed; and, the value not
\* sent, a due tick can only be answered by the next invocation.
C11_TaskFailureNonFatal ==
    /\ [][errors' > errors => loop_pc' = "select"]_vars
    /\ [](loop_pc = "stopped" => Sent)
    /\ []((loop_pc = "select" /\ ~Sent /\ tick_ready) =>
             (ENABLED LoopTick /\ ~ENABLED LoopBreak))

\* C11 witness: three invocations in a row have failed, the value is not
\* sent and the loop is at its select! again
C11_Witness ==
    /\ errors = 3
    /\ invocations = 3
    /\ last_result = "err"
    /\ loop_pc = "select"
    /\ ~Sent

\* C12: the send of the shutdown listener never panics, also when the loop
\* has already ended and dropped its receiver.
C12_SendNeverPanics ==
    listener_pc /= "panicked"

\* C14: cancellation is cooperative. The step that sends the value leaves
\* the invocation in progress and the loop where they are; an invocation in
\* progress ends only by completing; the loop stops only from its select!,
\* between invocations, the value having been sent.
C14_CancellationCooperative ==
    /\ [][(Sent' /\ ~Sent) => (in_flight' = in_flight /\ loop_pc' = loop_pc)]_vars
    /\ [][(loop_pc = "task" /\ loop_pc' /= "task") =>
             (loop_pc' = "select" /\ in_flight' = in_flight - 1
                 /\ last_result' \in {"ok", "err"})]_vars
    /\ [][(loop_pc' = "stopped" /\ loop_pc /= "stopped") =>
             (loop_pc = "select" /\ in_flight = 0 /\ Sent)]_vars

\* C14 witness: an invocation that began before the value was sent is still
\* in progress after it
C14_Witness ==
    /\ Sent
    /\ in_flight = 1
    /\ loop_pc = "task"
    /\ sent_at > task_start
    /\ overran

====
